---------------------------- MODULE Spec2Model ----------------------------
(***************************************************************************)
(* A model of filter_text_corpus.py: the streaming boilerplate filter      *)
(* (filter_text_stream), its helpers (load_patterns, matches_boilerplate)  *)
(* and its command-line entry point (main).                                *)
(*                                                                         *)
(* Text is a sequence of one-character strings, so that prefix matching,   *)
(* caret removal and whitespace trimming are computed character by         *)
(* character, as the Python string methods compute them.  A file is the    *)
(* sequence of the raw lines a text-mode iterator yields for it: every     *)
(* raw line ends with "\n", except possibly the last one.                   *)
(*                                                                         *)
(* Two smaller programs of the repository are modelled beside it, each in  *)
(* a specification of its own: convert of scripts/conllu_to_wpl.py         *)
(* (SpecConvert) and the generator stream_units of tag_with_stanza.py      *)
(* (SpecUnits).                                                            *)
(***************************************************************************)
EXTENDS Integers, Sequences, FiniteSets, TLC

\* ------------------------------------------------------------------ bounds

\* Longest generated input file, in lines (LongInputs are longer).
MaxLines == 2

\* Largest --limit value tried (limits 0..MaxLimit, and no limit).
MaxLimit == 2

\* The progress interval.  The source hard-codes 10000 (line 130); the model
\* scales it down so that a run of MaxLines lines reaches a multiple of it.
ProgressInterval == 2

\* Longest pattern list tried on matches_boilerplate alone.
MaxPatterns == 2

\* Longest generated pattern file, in lines.
MaxPatternLines == 3

\* Longest generated CoNLL-U file, in lines.
MaxConlluLines == 4

\* Longest generated text file given to stream_units, in lines.
MaxUnitLines == 4

\* ----------------------------------------------------------------- strings

Rep(c, n) == [i \in 1..n |-> c]

Last(s) == s[Len(s)]

Front(s) == SubSeq(s, 1, Len(s) - 1)

Range(s) == {s[i] : i \in DOMAIN s}

\* The characters str.strip() treats as whitespace (those the model uses).
Whitespace == {" ", "\t", "\n", "\r", "\f"}

RECURSIVE Rstrip(_, _)
\* str.rstrip(chars): drop every trailing character that is in chars.
Rstrip(s, chars) ==
  IF s = <<>> \/ Last(s) \notin chars THEN s ELSE Rstrip(Front(s), chars)

RECURSIVE Lstrip(_, _)
Lstrip(s, chars) ==
  IF s = <<>> \/ Head(s) \notin chars THEN s ELSE Lstrip(Tail(s), chars)

\* A mutant of Strip: only trailing whitespace is trimmed.
Strip_RightOnly(s) == Rstrip(s, Whitespace)

\* str.strip(): trim whitespace on both sides.
Strip(s) == Lstrip(Rstrip(s, Whitespace), Whitespace)

\* str.startswith(prefix)
StartsWith(text, prefix) ==
  /\ Len(prefix) <= Len(text)
  /\ SubSeq(text, 1, Len(prefix)) = prefix

\* A mutant of Replace: only the first occurrence is deleted, as
\* text.replace(c, '', 1) would.
Replace_First(text, c) ==
  IF \E i \in DOMAIN text : text[i] = c
  THEN LET i == CHOOSE i \in DOMAIN text :
                  text[i] = c /\ \A j \in 1..(i - 1) : text[j] # c
       IN  SubSeq(text, 1, i - 1) \o SubSeq(text, i + 1, Len(text))
  ELSE text

RECURSIVE Replace(_, _)
\* text.replace(c, ''): delete every occurrence of the character c.
Replace(text, c) ==
  IF text = <<>> THEN <<>>
  ELSE IF Head(text) = c THEN Replace(Tail(text), c)
  ELSE <<Head(text)>> \o Replace(Tail(text), c)

\* ---------------------------------------------------------------- patterns

DEFAULT_PATTERNS ==
  << <<"f","r","o","n","t","i","e","r","s","-","f","p","s","y","g","-","c","o","r","p","u","s",".","t","x","t"," ","J","o","u","r","n","a","l"," ","I","n","f","o","r","m","a","t","i","o","n">>,
     <<"J","o","u","r","n","a","l"," ","I","D"," ","(","p","u","b","l","i","s","h","e","r","-","i","d",")",":">>,
     <<"P","s","y","c","h","o","l","o","g","y"," ","J","o","u","r","n","a","l"," ","A","b","b","r","e","v","i","a","t","i","o","n",":">>,
     <<"P","s","y","c","h","o","l","o","g","y"," ","I","S","S","N",":">>,
     <<"P","u","b","l","i","s","h","e","r",":"," ","F","r","o","n","t","i","e","r","s"," ","R","e","s","e","a","r","c","h"," ","F","o","u","n","d","a","t","i","o","n">>,
     <<"A","r","t","i","c","l","e"," ","I","n","f","o","r","m","a","t","i","o","n">>,
     <<"C","o","p","y","r","i","g","h","t">>,
     <<"o","p","e","n","-","a","c","c","e","s","s",":">>,
     <<"R","e","c","e","i","v","e","d"," ","D","a","y",":">>,
     <<"A","c","c","e","p","t","e","d"," ","D","a","y",":">>,
     <<"E","l","e","c","t","r","o","n","i","c"," ","p","u","b","l","i","c","a","t","i","o","n"," ","d","a","t","e",":">>,
     <<"c","o","l","l","e","c","t","i","o","n"," ","p","u","b","l","i","c","a","t","i","o","n"," ","d","a","t","e",":">>,
     <<"V","o","l","u","m","e",":">>,
     <<"D","O","I",":">>,
     <<"[","d","o","i",":">>,
     <<"F","r","o","n","t",".">>,
     Rep("_", 4),
     Rep("_", 6),
     Rep("_", 64),
     Rep("_", 84) >>

RECURSIVE load_patterns(_)
\* The patterns of a pattern file, given as its raw lines: each line is
\* stripped, and kept when it is non-empty and does not start with "#".
load_patterns(f) ==
  IF f = <<>> THEN <<>>
  ELSE LET line == Strip(Head(f))
       IN  IF line # <<>> /\ ~StartsWith(line, <<"#">>)
           THEN <<line>> \o load_patterns(Tail(f))
           ELSE load_patterns(Tail(f))

\* A mutant of StartsWith: substring matching at any position.
StartsWith_Anywhere(text, prefix) ==
  \E k \in 0..(Len(text) - Len(prefix)) :
     SubSeq(text, k + 1, k + Len(prefix)) = prefix

\* The test of line 70, text.startswith(pattern).
PatternHit(text, pattern) == StartsWith(text, pattern)

RECURSIVE matches_boilerplate(_, _)
\* for pattern in patterns: if text.startswith(pattern): return True
matches_boilerplate(text, patterns) ==
  IF patterns = <<>> THEN FALSE
  ELSE IF PatternHit(text, Head(patterns)) THEN TRUE
  ELSE matches_boilerplate(text, Tail(patterns))


\* ------------------------------------------------------------ sanitization

\* line.rstrip('\r\n') (line 110)
StripLineEnd(line) == Rstrip(line, {"\r", "\n"})

\* A mutant of StripCaret: carets are trimmed from the start of the text
\* only, as text.lstrip('^') would.
StripCaret_Leading(text, strip) ==
  IF strip /\ "^" \in Range(text) THEN Lstrip(text, {"^"}) ELSE text

\* if strip_caret and '^' in text: text = text.replace('^', '') (113-114)
StripCaret(text, strip) ==
  IF strip /\ "^" \in Range(text) THEN Replace(text, "^") ELSE text

\* A mutant of Sanitize: the carets are still in the text that is tested
\* and classified.
Sanitize_CaretsLeft(line, strip) == StripLineEnd(line)

\* The text the loop body works on after lines 110-114.
Sanitize(line, strip) == StripCaret(StripLineEnd(line), strip)

\* A mutant of IsBlank: the emptiness test is left out.
IsBlank_Skipped(text) == FALSE

\* not text.strip() (line 117)
IsBlank(text) == Strip(text) = <<>>

\* What outfile.write is given for a kept sentence (line 126).
OutputLine(text) == text \o <<"\n">>

\* ------------------------------------------------------------------ inputs

\* The sentences input files are built from.
LineSet ==
  { <<>>,                                          \* an empty line
    <<"^","^","^">>,                               \* empty once carets go
    <<"a","^","b","^","c">>,
    <<"D","O","I",":"," ","f","o","o">>,
    <<"x","D","O","I",":"," ","f","o","o">>,
    <<"D","^","O","I",":"," ","x">> }

\* The last lines tried without a line terminator.
UnterminatedLines ==
  { <<"a","^","b","^","c">>,
    <<"D","O","I",":"," ","f","o","o">> }

\* Raw lines as the file iterator yields them: terminated, or (only as the
\* last line of a file) unterminated.
RawLines == {l \o <<"\n">> : l \in LineSet} \cup UnterminatedLines

Terminated(raw) == raw # <<>> /\ Last(raw) = "\n"

InputFiles ==
  { f \in UNION {[1..k -> RawLines] : k \in 0..MaxLines} :
      \A i \in 1..(Len(f) - 1) : Terminated(f[i]) }

\* The five-line input of the counting example: lines 1 and 3 are
\* boilerplate, line 4 is empty after stripping, lines 2 and 5 are kept.
FiveLineInput ==
  << <<"D","O","I",":"," ","f","o","o","\n">>,
     <<"x","D","O","I",":"," ","f","o","o","\n">>,
     <<"D","O","I",":"," ","f","o","o","\n">>,
     <<"^","^","^","\n">>,
     <<"x","D","O","I",":"," ","f","o","o","\n">> >>

\* A four-line input: a kept line, a boilerplate line and two more kept lines,
\* the first of them with carets.
FourLineInput ==
  << <<"x","D","O","I",":"," ","f","o","o","\n">>,
     <<"D","O","I",":"," ","f","o","o","\n">>,
     <<"a","^","b","^","c","\n">>,
     <<"x","D","O","I",":"," ","f","o","o","\n">> >>

\* A three-line input: two lines that start with "DOI:" once their carets
\* are deleted, and a line of carets.
CaretInput ==
  << <<"^","D","O","I",":"," ","x","\n">>,
     <<"D","^","O","I",":"," ","x","\n">>,
     <<"^","^","^","\n">> >>

\* The fixed inputs, longer than MaxLines.
LongInputs == {FourLineInput, FiveLineInput, CaretInput}

\* What the output path holds before a run, when it exists.
StaleOutput == << <<"s","t","a","l","e","\n">> >>

\* A pattern file: a comment, a blank line, a padded pattern, a pattern.
PatternFile ==
  << <<"#"," ","c","\n">>,
     <<"\n">>,
     <<" ","D","O","I",":"," ","\n">>,
     <<"a","\n">> >>

\* Pattern lists a caller of filter_text_stream passes directly.
ApiPatternSets ==
  { << <<"a">>, <<"D","O","I",":">> >>,
    << <<"D","O","I",":">>, <<>> >> }

\* limit: <<>> is None, <<n>> is the integer n.
Limits == {<<>>} \cup {<<n>> : n \in 0..MaxLimit}

\* Path.resolve(): "./in.txt" names the file in.txt.
Resolve(p) == IF p = "./in.txt" THEN "in.txt" ELSE p

\* ------------------------------------------------------------------- state

VARIABLES
  entry,         \* "cli": python filter_text_corpus.py ...; "api": a direct call
  input_path, output_path,
  patterns_arg,  \* --patterns: <<>> or <<path>>
  limit, strip_caret,
  fs,            \* the file system: resolved path -> raw lines (existing files)
  patterns,      \* the pattern list in use
  pc,            \* where the program is
  exc,           \* the exception in flight
  inOpen, outOpen,
  pos,           \* lines the iterator over infile has yielded
  total, removed,
  text,          \* the loop body's text
  progress,      \* the counts the progress line (131) has written to stderr
  exitmsg,       \* the message of sys.exit
  stdout,        \* the "total\tremoved" line main prints
  status,        \* the process's exit status
  result,        \* the pair filter_text_stream returned
  pass,          \* 1: the first run; 2: the run over the first run's output
  in_sentence, sentences, tokens,   \* scripts/conllu_to_wpl.py: convert
  paragraph_mode, buf,              \* tag_with_stanza.py: stream_units
  units          \* the units stream_units has yielded

vars ==
  << entry, input_path, output_path, patterns_arg, limit, strip_caret, fs,
     patterns, pc, exc, inOpen, outOpen, pos, total, removed, text, progress,
     exitmsg, stdout, status, result, pass,
     in_sentence, sentences, tokens, paragraph_mode, buf, units >>

args == << entry, patterns_arg, limit, strip_caret >>

paths == << input_path, output_path >>

handles == << inOpen, outOpen, pos >>

counters == << total, removed, text >>

outcome == << exitmsg, stdout, status, result >>

\* The state of the other scripts, which filter_text_corpus.py never touches.
scripts == << in_sentence, sentences, tokens, paragraph_mode, buf, units >>

NoExc == [type |-> "None", line |-> 0]

Raise(t, l) == [type |-> t, line |-> l]

Exists(p) == Resolve(p) \in DOMAIN fs

\* The file system after open(p, "w"): p exists and is empty.
Truncated(p) ==
  [q \in DOMAIN fs \cup {Resolve(p)} |-> IF q = Resolve(p) THEN <<>> ELSE fs[q]]

\* The lines of the input file.
InputLines == IF Exists(input_path) THEN fs[Resolve(input_path)] ELSE <<>>

\* The lines of the output file.
OutputLines == IF Exists(output_path) THEN fs[Resolve(output_path)] ELSE <<>>

\* ------------------------------------------------------------------- Init

\* The other scripts are not running.
Idle ==
  /\ in_sentence = FALSE /\ sentences = 0 /\ tokens = 0
  /\ paragraph_mode = FALSE /\ buf = <<>> /\ units = <<>>

Fresh ==
  /\ Idle
  /\ pos = 0 /\ total = 0 /\ removed = 0 /\ text = <<>>
  /\ inOpen = FALSE /\ outOpen = FALSE
  /\ exc = NoExc /\ progress = <<>> /\ exitmsg = ""
  /\ stdout = <<>> /\ status = <<>> /\ result = <<>>
  /\ pass = 1

\* Command-line runs in.txt -> out.txt with the default patterns or with a
\* pattern file, over every input and configuration.
InitCli ==
  /\ entry = "cli" /\ pc = "main"
  /\ input_path = "in.txt" /\ output_path = "out.txt"
  /\ limit \in Limits /\ strip_caret \in BOOLEAN
  /\ patterns = <<>>
  /\ \E inp \in InputFiles \cup LongInputs :
       \/ /\ patterns_arg = <<>>
          /\ fs = [p \in {"in.txt", "out.txt"} |->
                     IF p = "in.txt" THEN inp ELSE StaleOutput]
       \/ /\ patterns_arg = <<"pat.txt">>
          /\ fs = [p \in {"in.txt", "out.txt", "pat.txt"} |->
                     IF p = "in.txt" THEN inp
                     ELSE IF p = "pat.txt" THEN PatternFile ELSE StaleOutput]
  /\ Fresh

\* Command-line runs that test main's checks: every pair of paths, an input
\* or a pattern file that may be missing, an output that may not exist yet.
InitPaths ==
  /\ entry = "cli" /\ pc = "main"
  /\ input_path \in {"in.txt", "./in.txt", "missing.txt"}
  /\ output_path \in {"out.txt", "in.txt", "./in.txt"}
  /\ limit = <<>> /\ strip_caret = TRUE
  /\ patterns = <<>>
  /\ patterns_arg \in {<<>>, <<"pat.txt">>}
  /\ \E inp \in {f \in InputFiles : Len(f) <= 1},
        files \in {{"in.txt"}, {"in.txt", "out.txt"}} :
       fs = [p \in files |-> IF p = "in.txt" THEN inp ELSE StaleOutput]
  /\ Fresh

\* Direct calls of filter_text_stream with a pattern list of the caller's.
InitApi ==
  /\ entry = "api" /\ pc = "call"
  /\ input_path = "in.txt" /\ output_path = "out.txt"
  /\ limit \in Limits /\ strip_caret \in BOOLEAN
  /\ patterns \in ApiPatternSets
  /\ patterns_arg = <<>>
  /\ \E inp \in InputFiles :
       fs = [p \in {"in.txt", "out.txt"} |->
               IF p = "in.txt" THEN inp ELSE StaleOutput]
  /\ Fresh

Init == InitCli \/ InitPaths \/ InitApi

\* ------------------------------------------------------------------- main

\* A mutant of SameFile: the paths are compared as given, unresolved.
SameFile_NoResolve(a, b) == a = b

\* Path(args.input).resolve() == Path(args.output).resolve() (line 195)
SameFile(a, b) == Resolve(a) = Resolve(b)

\* main, from the parsed arguments to the call of filter_text_stream
\* (lines 178-203): load the patterns, refuse a missing input, refuse an
\* output that is the input.  --verbose only adds diagnostics and is off.
Main ==
  /\ pc = "main"
  /\ IF patterns_arg # <<>> /\ ~Exists(patterns_arg[1])
     THEN \* open(pattern_file) raises (line 55)
          /\ exc' = Raise("FileNotFoundError", 55)
          /\ pc' = "raised"
          /\ status' = <<1>>
          /\ UNCHANGED << patterns, exitmsg >>
     ELSE /\ patterns' = IF patterns_arg # <<>>
                         THEN load_patterns(fs[Resolve(patterns_arg[1])])
                         ELSE DEFAULT_PATTERNS
          /\ IF ~Exists(input_path)
             THEN /\ exitmsg' = "Error: Input file not found"
                  /\ status' = <<1>>
                  /\ pc' = "exited"
             ELSE IF SameFile(input_path, output_path)
             THEN /\ exitmsg' = "Error: Input and output files are the same"
                  /\ status' = <<1>>
                  /\ pc' = "exited"
             ELSE /\ pc' = "call"
                  /\ UNCHANGED << exitmsg, status >>
          /\ UNCHANGED exc
  /\ UNCHANGED << args, scripts, paths, fs, handles, counters, progress, stdout,
                  result, pass >>

\* main after the call: print "total\tremoved" and end (lines 211-215).
MainPrint ==
  /\ pc = "returned" /\ entry = "cli"
  /\ stdout' = result
  /\ status' = <<0>>
  /\ pc' = "exited"
  /\ UNCHANGED << args, scripts, paths, fs, patterns, exc, handles, counters,
                  progress, exitmsg, result, pass >>

\* ----------------------------------------------------- filter_text_stream

\* total = 0; removed = 0 (lines 99-100)
Call ==
  /\ pc = "call"
  /\ total' = 0 /\ removed' = 0
  /\ pc' = "open_in"
  /\ UNCHANGED << args, scripts, paths, fs, patterns, exc, handles, text, progress,
                  outcome, pass >>

\* A mutant of OpenInput: the output has been opened, and so created or
\* truncated, before the input is.
OpenInput_OutputFirst ==
  /\ pc = "open_in"
  /\ fs' = Truncated(output_path)
  /\ \/ /\ Exists(input_path)
        /\ inOpen' = TRUE /\ pos' = 0
        /\ pc' = "open_out"
        /\ UNCHANGED << exc, status >>
     \/ /\ exc' = Raise(IF Exists(input_path) THEN "OSError"
                        ELSE "FileNotFoundError", 102)
        /\ pc' = "raised"
        /\ status' = <<1>>
        /\ UNCHANGED << inOpen, pos >>
  /\ UNCHANGED << args, scripts, paths, patterns, outOpen, counters,
                  progress, exitmsg, stdout, result, pass >>

\* open(input_path, "r") (line 102)
OpenInput ==
  /\ pc = "open_in"
  /\ \/ /\ Exists(input_path)
        /\ inOpen' = TRUE /\ pos' = 0
        /\ pc' = "open_out"
        /\ UNCHANGED << exc, status >>
     \/ /\ exc' = Raise(IF Exists(input_path) THEN "OSError"
                        ELSE "FileNotFoundError", 102)
        /\ pc' = "raised"
        /\ status' = <<1>>
        /\ UNCHANGED << inOpen, pos >>
  /\ UNCHANGED << args, scripts, paths, fs, patterns, outOpen, counters, progress,
                  exitmsg, stdout, result, pass >>

\* open(output_path, "w") (line 103): creates or truncates the file.  When it
\* raises, the with statement closes infile.
OpenOutput ==
  /\ pc = "open_out"
  /\ \/ /\ outOpen' = TRUE
        /\ fs' = Truncated(output_path)
        /\ pc' = "loop"
        /\ UNCHANGED exc
     \/ /\ exc' = Raise("OSError", 103)
        /\ pc' = "exit_in"
        /\ UNCHANGED << outOpen, fs >>
  /\ UNCHANGED << args, scripts, paths, patterns, inOpen, pos, counters, progress,
                  outcome, pass >>

\* A mutant of LimitReached: the loop stops one written line short.
LimitReached_Early(lim, n) == lim # <<>> /\ n + 1 >= lim[1]

\* A mutant of LimitReached: the comparison is strict.
LimitReached_Late(lim, n) == lim # <<>> /\ n > lim[1]

\* limit is not None and total >= limit (line 107)
LimitReached(lim, n) == lim # <<>> /\ n >= lim[1]

\* A mutant of Written: the line is put at the start of the file.
Written_Prepend(s) == [fs EXCEPT ![Resolve(output_path)] = <<s>> \o @]

\* The file system after outfile.write(s) (line 126).
Written(s) == [fs EXCEPT ![Resolve(output_path)] = Append(@, s)]

\* A mutant of Flushed: the last k lines survive instead of the first k.
Flushed_Tail(k) ==
  [fs EXCEPT ![Resolve(output_path)] = SubSeq(@, Len(@) - k + 1, Len(@))]

\* The file system after a failed flush of outfile: the handle buffers what
\* write is given (lines 103, 126), so only the first k lines written have
\* reached the file and the rest is lost with the buffer.
Flushed(k) == [fs EXCEPT ![Resolve(output_path)] = SubSeq(@, 1, k)]

\* A mutant of ProgressDue: the count before the write is tested, so that
\* progress is reported one write late and first at written = 1.
ProgressDue_Stale(n) == (n - 1) % ProgressInterval = 0

\* total % 10000 == 0 (line 130), with the interval of the model.
ProgressDue(n) == n % ProgressInterval = 0

\* One pass of the for loop (lines 105-132): pull a line, test the limit,
\* sanitize, skip a blank text, count a boilerplate text, write the rest and
\* report progress.  Leaving the loop, by exhaustion, break or exception,
\* enters the exit of the with statement.
LoopIteration ==
  /\ pc = "loop"
  /\ \/ \* the read raises: an I/O error or undecodable bytes
        /\ \E t \in {"OSError", "UnicodeDecodeError"} : exc' = Raise(t, 105)
        /\ pc' = "exit_out"
        /\ UNCHANGED << fs, pos, counters, progress >>
     \/ \* the input is exhausted
        /\ pos = Len(InputLines)
        /\ pc' = "exit_out"
        /\ UNCHANGED << fs, exc, pos, counters, progress >>
     \/ /\ pos < Len(InputLines)
        /\ pos' = pos + 1
        /\ IF LimitReached(limit, total)
           THEN \* break
                /\ pc' = "exit_out"
                /\ UNCHANGED << fs, exc, counters, progress >>
           ELSE LET t == Sanitize(InputLines[pos + 1], strip_caret)
                IN  /\ text' = t
                    /\ IF IsBlank(t)
                       THEN \* continue
                            UNCHANGED << fs, exc, pc, total, removed, progress >>
                       ELSE IF matches_boilerplate(t, patterns)
                       THEN /\ removed' = removed + 1
                            /\ UNCHANGED << fs, exc, pc, total, progress >>
                       ELSE \/ \* outfile.write raises
                               /\ exc' = Raise("OSError", 126)
                               /\ pc' = "exit_out"
                               /\ \E k \in 0..Len(OutputLines) :
                                    fs' = Flushed(k)
                               /\ UNCHANGED << total, removed, progress >>
                            \/ /\ fs' = Written(OutputLine(t))
                               /\ total' = total + 1
                               /\ removed' = removed
                               /\ IF ProgressDue(total + 1)
                                  THEN \/ /\ progress' = Append(progress, total + 1)
                                          /\ UNCHANGED << exc, pc >>
                                       \/ \* sys.stderr.write raises
                                          /\ exc' = Raise("OSError", 131)
                                          /\ pc' = "exit_out"
                                          /\ UNCHANGED progress
                                  ELSE UNCHANGED << exc, pc, progress >>
  /\ UNCHANGED << args, scripts, paths, patterns, inOpen, outOpen, outcome, pass >>

\* The with statement's exit, first part: outfile is closed.  Closing flushes
\* the buffer, which may raise (the exception of the close then replaces the
\* one in flight, and what was still buffered is lost); the handle is closed
\* all the same.
ExitOut ==
  /\ pc = "exit_out"
  /\ outOpen' = FALSE
  /\ \/ UNCHANGED << exc, fs >>
     \/ /\ exc' = Raise("OSError", 103)
        /\ \E k \in 0..Len(OutputLines) : fs' = Flushed(k)
  /\ pc' = "exit_in"
  /\ UNCHANGED << args, scripts, paths, patterns, inOpen, pos, counters, progress,
                  outcome, pass >>

\* A mutant of ExitIn: infile is left open when an exception is in flight.
ExitIn_LeakOnError ==
  /\ pc = "exit_in"
  /\ inOpen' = (exc # NoExc)
  /\ pc' = IF exc = NoExc THEN "tail" ELSE "raised"
  /\ status' = IF exc = NoExc THEN status ELSE <<1>>
  /\ UNCHANGED << args, scripts, paths, fs, patterns, exc, outOpen, pos, counters,
                  progress, exitmsg, stdout, result, pass >>

\* The with statement's exit, second part: infile is closed; an exception in
\* flight then leaves the function (and, uncaught, ends the process).
ExitIn ==
  /\ pc = "exit_in"
  /\ inOpen' = FALSE
  /\ pc' = IF exc = NoExc THEN "tail" ELSE "raised"
  /\ status' = IF exc = NoExc THEN status ELSE <<1>>
  /\ UNCHANGED << args, scripts, paths, fs, patterns, exc, outOpen, pos, counters,
                  progress, exitmsg, stdout, result, pass >>

\* sys.stderr.write("\n"); return total, removed (lines 134-135)
Return ==
  /\ pc = "tail"
  /\ \/ /\ result' = << total, removed >>
        /\ pc' = "returned"
        /\ UNCHANGED << exc, status >>
     \/ /\ exc' = Raise("OSError", 134)
        /\ pc' = "raised"
        /\ status' = <<1>>
        /\ UNCHANGED result
  /\ UNCHANGED << args, scripts, paths, fs, patterns, handles, counters, progress,
                  exitmsg, stdout, pass >>

\* ------------------------------------------------------------ re-filtering

\* The run has ended without an error.
Succeeded ==
  \/ entry = "cli" /\ pc = "exited" /\ status = <<0>>
  \/ entry = "api" /\ pc = "returned"

\* The program is run again, with the same patterns and configuration, on
\* the output of the first run.
Refilter ==
  /\ pass = 1 /\ Succeeded
  /\ pass' = 2
  /\ input_path' = output_path
  /\ output_path' = "out2.txt"
  /\ pc' = IF entry = "cli" THEN "main" ELSE "call"
  /\ pos' = 0 /\ total' = 0 /\ removed' = 0 /\ text' = <<>>
  /\ progress' = <<>> /\ exitmsg' = ""
  /\ stdout' = <<>> /\ status' = <<>> /\ result' = <<>>
  /\ UNCHANGED << args, scripts, fs, patterns, exc, inOpen, outOpen >>

Next ==
  \/ Main
  \/ MainPrint
  \/ Call
  \/ OpenInput
  \/ OpenOutput
  \/ LoopIteration
  \/ ExitOut
  \/ ExitIn
  \/ Return
  \/ Refilter

Spec == Init /\ [][Next]_vars

\* The steps of one run of the program, from its start to its end.
NextRun ==
  \/ Main
  \/ MainPrint
  \/ Call
  \/ OpenInput
  \/ OpenOutput
  \/ LoopIteration
  \/ ExitOut
  \/ ExitIn
  \/ Return

\* One run, in which the interpreter runs the statements one after the other
\* and never stalls: a step that can be taken is taken.
SpecFair == Init /\ [][NextRun]_vars /\ WF_vars(NextRun)

\* ------------------------------------------- matches_boilerplate alone

\* Texts to classify: boilerplate, boilerplate after another character or
\* after a space, in another case, cut short, and plain text.
MatchTexts ==
  { <<"D","O","I",":"," ","f","o","o">>,
    <<"x","D","O","I",":"," ","f","o","o">>,
    <<" ","D","O","I",":"," ","f","o","o">>,
    <<"d","o","i",":"," ","f","o","o">>,
    <<"D","O","I",":">>,
    <<"D","O","I">>,
    <<"a","b","c">>,
    <<>> }

MatchPatterns ==
  { <<"D","O","I",":">>,
    <<"d","o","i",":">>,
    <<"D","O","I",":"," ","f","o","o","t">>,
    <<"a">>,
    <<>> }

MatchPatternLists ==
  UNION {[1..k -> MatchPatterns] : k \in 0..MaxPatterns} \cup {DEFAULT_PATTERNS}

\* A call matches_boilerplate(text, patterns) is about to be made.
InitMatch ==
  /\ pc = "matches_boilerplate"
  /\ text \in MatchTexts
  /\ patterns \in MatchPatternLists
  /\ result = <<>>
  /\ entry = "api" /\ input_path = "" /\ output_path = ""
  /\ patterns_arg = <<>> /\ limit = <<>> /\ strip_caret = FALSE
  /\ fs = <<>>
  /\ pos = 0 /\ total = 0 /\ removed = 0
  /\ inOpen = FALSE /\ outOpen = FALSE
  /\ exc = NoExc /\ progress = <<>> /\ exitmsg = ""
  /\ stdout = <<>> /\ status = <<>>
  /\ pass = 1
  /\ Idle

\* The call returns its boolean.
ApplyMatch ==
  /\ pc = "matches_boilerplate"
  /\ result' = << matches_boilerplate(text, patterns) >>
  /\ pc' = "matched"
  /\ UNCHANGED << args, scripts, paths, fs, patterns, exc, handles, counters,
                  progress, exitmsg, stdout, status, pass >>

SpecMatch == InitMatch /\ [][ApplyMatch]_vars

\* ------------------------------------------------- load_patterns alone

\* Lines of a pattern file: comments (one of them indented), a blank and a
\* whitespace-only line, patterns with and without padding, and a pattern
\* that holds a "#" after its first character.
PatternLineSet ==
  { <<"#"," ","c","\n">>,
    <<" ","#","x","\n">>,
    <<"\n">>,
    <<" ","\t","\n">>,
    <<" ","D","O","I",":"," ","\n">>,
    <<"a","\n">>,
    <<"a","#","b","\n">> }

\* Pattern files: every file of up to MaxPatternLines lines, the same with a
\* last line that has no line terminator, and PatternFile.
PatternFiles ==
  LET Terminated_(n) == UNION {[1..k -> PatternLineSet] : k \in 0..n}
  IN  Terminated_(MaxPatternLines)
        \cup {Append(f, <<"a"," ">>) : f \in Terminated_(MaxPatternLines - 1)}
        \cup {PatternFile}

\* A call load_patterns("pat.txt") is about to be made.
InitLoad ==
  /\ pc = "load_patterns"
  /\ patterns_arg = <<"pat.txt">>
  /\ \E f \in PatternFiles : fs = [p \in {"pat.txt"} |-> f]
  /\ patterns = <<>>
  /\ entry = "api" /\ input_path = "" /\ output_path = ""
  /\ limit = <<>> /\ strip_caret = FALSE
  /\ Fresh

\* The call returns the list of patterns.
ApplyLoad ==
  /\ pc = "load_patterns"
  /\ patterns' = load_patterns(fs[patterns_arg[1]])
  /\ pc' = "loaded"
  /\ UNCHANGED << args, scripts, paths, fs, exc, handles, counters, progress,
                  outcome, pass >>

SpecLoad == InitLoad /\ [][ApplyLoad]_vars

\* ---------------------------------- scripts/conllu_to_wpl.py: convert

Digits == {"0", "1", "2", "3", "4", "5", "6", "7", "8", "9"}

RECURSIVE DigitsFrom(_, _)
\* How many digits s holds in a row from position i on: what \d+ consumes.
DigitsFrom(s, i) ==
  IF i <= Len(s) /\ s[i] \in Digits THEN 1 + DigitsFrom(s, i + 1) ELSE 0

\* A mutant of mwt_or_empty: the alternative for empty nodes is missing.
mwt_only(line) ==
  LET a == DigitsFrom(line, 1)
      b == DigitsFrom(line, a + 2)
  IN  /\ a >= 1 /\ b >= 1
      /\ a + b + 2 <= Len(line)
      /\ line[a + 1] = "-"
      /\ line[a + b + 2] = "\t"

\* mwt_or_empty.match(line), the pattern being ^\d+-\d+\t|^\d+\.\d+\t
\* (line 41): digits, "-" or ".", digits and a tab, at the start of the line.
mwt_or_empty(line) ==
  LET a == DigitsFrom(line, 1)
      b == DigitsFrom(line, a + 2)
  IN  /\ a >= 1 /\ b >= 1
      /\ a + b + 2 <= Len(line)
      /\ line[a + 1] \in {"-", "."}
      /\ line[a + b + 2] = "\t"

\* Lines of a CoNLL-U file: a comment, two token lines (the form of the
\* second is "<s>"), a multi-word token line, an empty node line, a blank
\* line and a line of whitespace.
ConlluLineSet ==
  { <<"#"," ","c","\n">>,
    <<"1","\t","a","\n">>,
    <<"2","\t","<","s",">","\n">>,
    <<"1","0","-","1","1","\t","a","b","\n">>,
    <<"1",".","1","\t","e","\n">>,
    <<"\n">>,
    <<" ","\n">> }

\* CoNLL-U files: every file of up to MaxConlluLines lines and, when its last
\* line is more than a line terminator, the same file without its last line
\* terminator.
ConlluFiles ==
  LET whole == UNION {[1..k -> ConlluLineSet] : k \in 0..MaxConlluLines}
  IN  whole \cup
        { [f EXCEPT ![Len(f)] = Front(@)] :
            f \in {g \in whole : g # <<>> /\ Last(g) # <<"\n">>} }

\* A call convert("in.conllu", "out.wpl") is about to be made.
InitConvert ==
  /\ pc = "convert"
  /\ entry = "api"
  /\ input_path = "in.conllu" /\ output_path = "out.wpl"
  /\ \E f \in ConlluFiles :
       fs = [p \in {"in.conllu", "out.wpl"} |->
               IF p = "in.conllu" THEN f ELSE StaleOutput]
  /\ patterns_arg = <<>> /\ limit = <<>> /\ strip_caret = FALSE
  /\ patterns = <<>>
  /\ Fresh

\* sentences = 0; tokens = 0; in_sentence = False; both files are opened
\* (lines 42-47).
ConvertOpen ==
  /\ pc = "convert"
  /\ sentences' = 0 /\ tokens' = 0 /\ in_sentence' = FALSE
  /\ inOpen' = TRUE /\ outOpen' = TRUE /\ pos' = 0
  /\ fs' = Truncated(output_path)
  /\ pc' = "convert_loop"
  /\ UNCHANGED << args, paths, patterns, exc, counters, progress, outcome,
                  pass, paragraph_mode, buf, units >>

\* The file system after fout.write of the lines of a, then of those of b
\* (lines 59, 70, 73, 78).
WrittenAll(a, b) ==
  [fs EXCEPT ![Resolve(output_path)] = @ \o a \o b]

\* One pass of the for loop (lines 49-74): a comment line is skipped; a blank
\* line closes the open sentence; a multi-word token or empty node line is
\* skipped; any other line is written, after "<s>" when no sentence is open.
ConvertLine ==
  /\ pc = "convert_loop"
  /\ pos < Len(InputLines)
  /\ pos' = pos + 1
  /\ LET line == Rstrip(InputLines[pos + 1], {"\n"})
     IN  IF StartsWith(line, <<"#">>)
         THEN UNCHANGED << fs, in_sentence, sentences, tokens >>
         ELSE IF Strip(line) = <<>>
         THEN IF in_sentence
              THEN /\ fs' = WrittenAll(<< <<"<","/","s",">","\n">> >>, <<>>)
                   /\ sentences' = sentences + 1
                   /\ in_sentence' = FALSE
                   /\ UNCHANGED tokens
              ELSE UNCHANGED << fs, in_sentence, sentences, tokens >>
         ELSE IF mwt_or_empty(line)
         THEN UNCHANGED << fs, in_sentence, sentences, tokens >>
         ELSE /\ fs' = WrittenAll(IF in_sentence THEN <<>>
                                  ELSE << <<"<","s",">","\n">> >>,
                                  << line \o <<"\n">> >>)
              /\ in_sentence' = TRUE
              /\ tokens' = tokens + 1
              /\ UNCHANGED sentences
  /\ UNCHANGED << args, paths, patterns, pc, exc, inOpen, outOpen, counters,
                  progress, outcome, pass, paragraph_mode, buf, units >>

\* A mutant of ConvertEnd: a sentence open at the end of the input is left
\* open.
ConvertEnd_NoClose ==
  /\ pc = "convert_loop"
  /\ pos = Len(InputLines)
  /\ result' = << sentences, tokens >>
  /\ inOpen' = FALSE /\ outOpen' = FALSE
  /\ pc' = "converted"
  /\ UNCHANGED << args, paths, fs, patterns, exc, pos, counters, progress,
                  exitmsg, stdout, status, pass, scripts >>

\* The end of the input (lines 77-81): a sentence still open is closed and
\* counted, the files are closed, the counts are returned.
ConvertEnd ==
  /\ pc = "convert_loop"
  /\ pos = Len(InputLines)
  /\ IF in_sentence
     THEN /\ fs' = WrittenAll(<< <<"<","/","s",">","\n">> >>, <<>>)
          /\ sentences' = sentences + 1
     ELSE UNCHANGED << fs, sentences >>
  /\ result' = << sentences', tokens >>
  /\ inOpen' = FALSE /\ outOpen' = FALSE
  /\ pc' = "converted"
  /\ UNCHANGED << args, paths, patterns, exc, pos, counters, progress,
                  exitmsg, stdout, status, pass, in_sentence, tokens,
                  paragraph_mode, buf, units >>

NextConvert == ConvertOpen \/ ConvertLine \/ ConvertEnd

SpecConvert == InitConvert /\ [][NextConvert]_vars

\* ------------------------------------ tag_with_stanza.py: stream_units

\* Lines of a text file: two lines of text, an empty line and a line that is
\* a single space.
TextLineSet ==
  { <<"a","\n">>,
    <<"b"," ","c","\n">>,
    <<"\n">>,
    <<" ","\n">> }

\* Text files: every file of up to MaxUnitLines lines and, when its last
\* line is more than a line terminator, the same file without its last line
\* terminator.
TextFiles ==
  LET whole == UNION {[1..k -> TextLineSet] : k \in 0..MaxUnitLines}
  IN  whole \cup
        { [f EXCEPT ![Len(f)] = Front(@)] :
            f \in {g \in whole : g # <<>> /\ Last(g) # <<"\n">>} }

RECURSIVE Join(_, _)
\* sep.join(parts)
Join(sep, parts) ==
  IF parts = <<>> THEN <<>>
  ELSE IF Len(parts) = 1 THEN parts[1]
  ELSE Join(sep, Front(parts)) \o sep \o Last(parts)

\* A generator stream_units("in.txt", paragraph_mode) has been created and
\* is about to be iterated to its end.
InitUnits ==
  /\ pc = "stream_units"
  /\ entry = "api"
  /\ input_path = "in.txt" /\ output_path = ""
  /\ \E f \in TextFiles : fs = [p \in {"in.txt"} |-> f]
  /\ patterns_arg = <<>> /\ limit = <<>> /\ strip_caret = FALSE
  /\ patterns = <<>>
  /\ pos = 0 /\ total = 0 /\ removed = 0 /\ text = <<>>
  /\ inOpen = FALSE /\ outOpen = FALSE
  /\ exc = NoExc /\ progress = <<>> /\ exitmsg = ""
  /\ stdout = <<>> /\ status = <<>> /\ result = <<>>
  /\ pass = 1
  /\ in_sentence = FALSE /\ sentences = 0 /\ tokens = 0
  /\ paragraph_mode \in BOOLEAN
  /\ buf = <<>> /\ units = <<>>

\* The generator starts: buf = [] in paragraph mode, and the file is opened
\* (lines 46-47, 53-54).
UnitsOpen ==
  /\ pc = "stream_units"
  /\ buf' = <<>>
  /\ inOpen' = TRUE /\ pos' = 0
  /\ pc' = "units_loop"
  /\ UNCHANGED << args, paths, fs, patterns, exc, outOpen, counters,
                  progress, outcome, pass, in_sentence, sentences, tokens,
                  paragraph_mode, units >>

\* One pass of the for loop: in line mode (lines 48-51) a line that is not
\* empty without its "\n" is yielded; in paragraph mode (lines 55-62) such a
\* line is appended to buf, and an empty line yields the lines of buf joined
\* by "\n", when there are any, and empties buf.
UnitsLine ==
  /\ pc = "units_loop"
  /\ pos < Len(InputLines)
  /\ pos' = pos + 1
  /\ LET stripped == Rstrip(InputLines[pos + 1], {"\n"})
     IN  IF ~paragraph_mode
         THEN /\ units' = IF stripped # <<>> THEN Append(units, stripped)
                          ELSE units
              /\ UNCHANGED buf
         ELSE IF stripped = <<>>
         THEN IF buf # <<>>
              THEN /\ units' = Append(units, Join(<<"\n">>, buf))
                   /\ buf' = <<>>
              ELSE UNCHANGED << units, buf >>
         ELSE /\ buf' = Append(buf, stripped)
              /\ UNCHANGED units
  /\ UNCHANGED << args, paths, fs, patterns, pc, exc, inOpen, outOpen,
                  counters, progress, outcome, pass, in_sentence, sentences,
                  tokens, paragraph_mode >>

\* A mutant of UnitsEnd: what buf holds at the end of the file is dropped.
UnitsEnd_DropLast ==
  /\ pc = "units_loop"
  /\ pos = Len(InputLines)
  /\ inOpen' = FALSE
  /\ pc' = "units_done"
  /\ UNCHANGED << args, paths, fs, patterns, exc, outOpen, pos, counters,
                  progress, outcome, pass, scripts >>

\* The end of the file (lines 63-64): in paragraph mode the lines left in
\* buf are yielded; the file is closed and the generator is exhausted.
UnitsEnd ==
  /\ pc = "units_loop"
  /\ pos = Len(InputLines)
  /\ units' = IF paragraph_mode /\ buf # <<>>
              THEN Append(units, Join(<<"\n">>, buf))
              ELSE units
  /\ inOpen' = FALSE
  /\ pc' = "units_done"
  /\ UNCHANGED << args, paths, fs, patterns, exc, outOpen, pos, counters,
                  progress, outcome, pass, in_sentence, sentences, tokens,
                  paragraph_mode, buf >>

NextUnits == UnitsOpen \/ UnitsLine \/ UnitsEnd

SpecUnits == InitUnits /\ [][NextUnits]_vars

\* ------------------------------------------------ the claims' vocabulary
\* What the specification's words mean, stated without the operators that
\* model the code.

Min(a, b) == IF a <= b THEN a ELSE b

\* A raw line without its line terminator.
Content(raw) == SelectSeq(raw, LAMBDA c : c \notin {"\n", "\r"})

\* A text with every caret deleted and nothing else changed.
NoCaret(t) == SelectSeq(t, LAMBDA c : c # "^")

\* The sanitized form of a raw line under the run's configuration.
Clean(raw) == IF strip_caret THEN NoCaret(Content(raw)) ELSE Content(raw)

\* A text that is not empty and not whitespace only.
NonEmpty(t) == \E i \in DOMAIN t : t[i] \notin Whitespace

\* p equals the characters of t from position 0 for p's full length.
PrefixAt0(t, p) ==
  /\ Len(p) <= Len(t)
  /\ \A k \in 1..Len(p) : t[k] = p[k]

\* Some pattern of the run is a prefix of t, whatever the patterns' order.
Boilerplate(t) == \E p \in Range(patterns) : PrefixAt0(t, p)

\* A raw line is keep-eligible: non-empty once sanitized, and no boilerplate.
Eligible(raw) == NonEmpty(Clean(raw)) /\ ~Boilerplate(Clean(raw))

\* A raw line counts as removed: non-empty once sanitized, and boilerplate.
Droppable(raw) == NonEmpty(Clean(raw)) /\ Boilerplate(Clean(raw))

\* The output lines of the keep-eligible lines among lines, in order.
KeptOf(lines) ==
  LET sel == SelectSeq(lines, Eligible)
  IN  [k \in 1..Len(sel) |-> Clean(sel[k]) \o <<"\n">>]

\* The first k lines of the input.
Consumed(k) == SubSeq(InputLines, 1, k)

\* The function has returned.
Returned == result # <<>>

\* No error has occurred and the output file is this run's.
InRun ==
  /\ exc = NoExc
  /\ \/ pc \in {"loop", "exit_out", "exit_in", "tail", "returned"}
     \/ pc = "exited" /\ status = <<0>>

\* The index of the line whose write makes written reach the limit n (0 when
\* n = 0); the input's length when it has fewer than n keep-eligible lines.
LimitIndex(n) ==
  IF \E k \in 0..Len(InputLines) : Len(KeptOf(Consumed(k))) = n
  THEN CHOOSE k \in 0..Len(InputLines) :
         /\ Len(KeptOf(Consumed(k))) = n
         /\ \A j \in 0..(k - 1) : Len(KeptOf(Consumed(j))) < n
  ELSE Len(InputLines)

\* The lines that went through the loop body: the consumed lines, less the one
\* pulled after written had reached the limit, which the limit test discards.
Processed ==
  IF limit # <<>> /\ pos > 0 /\ Len(KeptOf(Consumed(pos - 1))) >= limit[1]
  THEN pos - 1
  ELSE pos

\* ------------------------------------------------------------------ claims

\* C1: with limit N >= 0 the number of lines written never exceeds N, and
\* when the input has at least N keep-eligible lines the run returns with
\* exactly N lines written: written = N, and the output holds N lines.
C1_LimitExactness ==
  limit # <<>> =>
    /\ total <= limit[1]
    /\ outOpen => Len(OutputLines) <= limit[1]
    /\ (Returned /\ Len(KeptOf(InputLines)) >= limit[1]) =>
         /\ result[1] = limit[1]
         /\ total = limit[1]
         /\ Len(OutputLines) = limit[1]

\* C1's case: a run that returned with the limit cutting the output short.
C1_Witness ==
  /\ Returned /\ limit = <<2>>
  /\ Len(KeptOf(InputLines)) = 3
  /\ result[1] = 2 /\ Len(OutputLines) = 2

DroppedIn(lines) == Len(SelectSeq(lines, Droppable))

C5_PrefixSemantics ==
  pc = "matched" =>
    /\ result[1] <=> Boilerplate(text)
    /\ (text = <<"x","D","O","I",":"," ","f","o","o">>
          /\ Range(patterns) = {<<"D","O","I",":">>}) => ~result[1]
    /\ (text = <<"D","O","I",":"," ","f","o","o">>
          /\ <<"D","O","I",":">> \in Range(patterns)) => result[1]
    /\ \A other \in MatchPatternLists :
         Range(other) = Range(patterns) =>
           matches_boilerplate(text, other) = result[1]

\* C5's case: "xDOI: foo" has been classified under the patterns "a", "DOI:"
\* and found not to match.
C5_Witness ==
  /\ pc = "matched"
  /\ text = <<"x","D","O","I",":"," ","f","o","o">>
  /\ patterns = << <<"a">>, <<"D","O","I",":">> >>
  /\ result = <<FALSE>>

\* C6: filtering the output of a run again, with the same patterns and
\* configuration, removes nothing and writes an output identical to its
\* input.
C6_Idempotent ==
  (pass = 2 /\ Returned) =>
    /\ removed = 0 /\ result[2] = 0
    /\ OutputLines = InputLines
    /\ result[1] = Len(InputLines)

\* C6's case: the second run has returned, over the output of a first run
\* that dropped a line and stripped carets from another.
C6_Witness ==
  /\ pass = 2 /\ Returned /\ strip_caret
  /\ Len(InputLines) = 3
  /\ Len(fs["in.txt"]) = 4
  /\ \E i \in 1..4 : "^" \in Range(fs["in.txt"][i]) /\ Eligible(fs["in.txt"][i])

\* C7: with strip_caret every caret of a kept line is deleted and no other
\* character changes, so no written line holds a caret ("a^b^c" is written
\* as "abc"); without it a kept line is written verbatim, carets included.
C7_CaretStripping ==
  InRun =>
    LET src == SelectSeq(InputLines, Eligible)
    IN  /\ Len(OutputLines) <= Len(src)
        /\ \A k \in 1..Len(OutputLines) :
             /\ strip_caret =>
                  /\ "^" \notin Range(OutputLines[k])
                  /\ OutputLines[k] = NoCaret(Content(src[k])) \o <<"\n">>
             /\ ~strip_caret => OutputLines[k] = Content(src[k]) \o <<"\n">>
        /\ \A i \in 1..Processed :
             (strip_caret /\ Content(InputLines[i]) = <<"a","^","b","^","c">>
                /\ ~Boilerplate(<<"a","b","c">>))
             => \E k \in 1..Len(OutputLines) :
                  OutputLines[k] = <<"a","b","c","\n">>

\* C7's case: "a^b^c" has been written as "abc" by a stripping run.
C7_Witness ==
  /\ InRun /\ strip_caret
  /\ \E i \in 1..pos : Content(InputLines[i]) = <<"a","^","b","^","c">>
  /\ \E k \in 1..Len(OutputLines) : OutputLines[k] = <<"a","b","c","\n">>

\* main is about to run with an input and an output path that resolve to the
\* same file.
SamePathRun ==
  /\ entry = "cli" /\ pc = "main"
  /\ Resolve(input_path) = Resolve(output_path)

C9_ProgressFailureNeverAborts ==
  ~(pc = "raised" /\ exc.line = 131)

\* C10: in every terminal state, whatever the exit path, no handle is open.
C10_HandlesReleased ==
  pc \in {"tail", "returned", "exited", "raised"} => (~inOpen /\ ~outOpen)

\* C10's case: the run has ended on a write error, after both handles had
\* been opened.
C10_Witness ==
  /\ pc = "raised" /\ exc = Raise("OSError", 126)
  /\ ~inOpen /\ ~outOpen
  /\ Exists(output_path) /\ OutputLines # StaleOutput

\* a is an initial segment of b.
IsPrefix(a, b) == Len(a) <= Len(b) /\ SubSeq(b, 1, Len(a)) = a

C12_Termination ==
  /\ (pc = "call") ~> (pc \in {"returned", "raised"})
  /\ [](pc = "raised" => exc # NoExc)
  /\ [](pc = "returned" =>
          /\ exc = NoExc
          /\ \/ pos = Len(InputLines)
             \/ limit # <<>> /\ total = limit[1]
          /\ result = << total, removed >>
          /\ total = Len(OutputLines))

\* C12's case: a run has returned because of the limit, with input left
\* unread, after removing one line and writing one.
C12_Witness ==
  /\ pc = "returned" /\ limit = <<1>>
  /\ pos = 3 /\ Len(InputLines) = 5
  /\ result = <<1, 1>>

\* A raw line with the whitespace around it trimmed: what lies between its
\* first and its last character that is not whitespace.
Trimmed(raw) ==
  LET ink == {i \in DOMAIN raw : raw[i] \notin Whitespace}
  IN  IF ink = {} THEN <<>>
      ELSE SubSeq(raw,
                  CHOOSE i \in ink : \A j \in ink : i <= j,
                  CHOOSE i \in ink : \A j \in ink : i >= j)

\* A line of a pattern file that gives a pattern: non-empty once trimmed and,
\* trimmed, not starting with "#".
IsPatternLine(raw) == Trimmed(raw) # <<>> /\ Trimmed(raw)[1] # "#"

\* C13: load_patterns returns, in source order, one pattern (the trimmed
\* line) for exactly the lines of the pattern file that are non-empty after
\* trimming and do not start with "#"; blank and comment lines give nothing,
\* and no returned pattern is the empty string.
C13_PatternLoading ==
  pc = "loaded" =>
    LET sel == SelectSeq(fs["pat.txt"], IsPatternLine)
    IN  /\ Len(patterns) = Len(sel)
        /\ \A k \in 1..Len(sel) : patterns[k] = Trimmed(sel[k])
        /\ \A k \in 1..Len(patterns) :
             patterns[k] # <<>> /\ patterns[k][1] # "#"

\* C13's case: a file with a comment, a blank line, a padded pattern and a
\* plain pattern has been loaded as two patterns, in the file's order.
C13_Witness ==
  /\ pc = "loaded"
  /\ fs["pat.txt"] = PatternFile
  /\ patterns = << <<"D","O","I",":">>, <<"a">> >>

\* The marker lines of the converter's output.
OpenMark == <<"<","s",">","\n">>

CloseMark == <<"<","/","s",">","\n">>

\* How many of the first k lines of out are the line x.
CountIn(out, k, x) == Cardinality({i \in 1..k : out[i] = x})

\* C14: the output of convert is a concatenation of blocks "<s>", one or
\* more token lines, "</s>": "<s>" is written only while no sentence is open
\* and is followed by a token line, "</s>" only while one is open, a token
\* line only inside a sentence; when convert has returned every sentence is
\* closed, whether or not the input ends with a blank line, and the returned
\* sentence count is the number of "<s>" lines and of "</s>" lines.
C14_BalancedMarkers ==
  pc \in {"convert_loop", "converted"} =>
    LET out == OutputLines
        opens(k) == CountIn(out, k, OpenMark)
        closes(k) == CountIn(out, k, CloseMark)
    IN  /\ \A k \in 1..Len(out) :
             /\ out[k] = OpenMark =>
                  /\ opens(k - 1) = closes(k - 1)
                  /\ k < Len(out)
                  /\ out[k + 1] \notin {OpenMark, CloseMark}
             /\ out[k] = CloseMark => opens(k - 1) = closes(k - 1) + 1
             /\ out[k] \notin {OpenMark, CloseMark} =>
                  opens(k) = closes(k) + 1
        /\ pc = "convert_loop" =>
             /\ sentences = closes(Len(out))
             /\ in_sentence <=> opens(Len(out)) = closes(Len(out)) + 1
        /\ pc = "converted" =>
             /\ opens(Len(out)) = closes(Len(out))
             /\ result[1] = opens(Len(out))
             /\ sentences = result[1]

\* C14's case: a file of two sentences that ends with a token line, without
\* a blank line and without a line terminator, has been converted.
C14_Witness ==
  /\ pc = "converted"
  /\ Len(InputLines) = 3
  /\ Last(Last(InputLines)) # "\n"
  /\ result = <<2, 2>>
  /\ Last(OutputLines) = CloseMark
  /\ CountIn(OutputLines, Len(OutputLines), OpenMark) = 2

\* A comment line of a CoNLL-U file.
IsCommentLine(raw) == raw # <<>> /\ raw[1] = "#"

\* A blank line: nothing but whitespace.
IsBlankLine(raw) == \A i \in DOMAIN raw : raw[i] \in Whitespace

\* A multi-word token line ("1-2<tab>...") or an empty node line
\* ("1.1<tab>..."): an ID made of a number, "-" or ".", and a number.
IsSubTokenLine(raw) ==
  \E a, b \in 1..Len(raw) :
    /\ a + b + 2 <= Len(raw)
    /\ \A i \in 1..a : raw[i] \in Digits
    /\ raw[a + 1] \in {"-", "."}
    /\ \A i \in (a + 2)..(a + b + 1) : raw[i] \in Digits
    /\ raw[a + b + 2] = "\t"

IsTokenLine(raw) ==
  ~IsCommentLine(raw) /\ ~IsBlankLine(raw) /\ ~IsSubTokenLine(raw)

\* The token lines among lines, in order, each as it is written.
TokensOf(lines) ==
  LET sel == SelectSeq(lines, IsTokenLine)
  IN  [k \in 1..Len(sel) |-> Content(sel[k]) \o <<"\n">>]

\* The token lines that are the first of their blank-line-delimited block.
FirstTokens(lines) ==
  { i \in DOMAIN lines :
      /\ IsTokenLine(lines[i])
      /\ \A j \in 1..(i - 1) :
           IsTokenLine(lines[j]) =>
             \E k \in (j + 1)..(i - 1) : IsBlankLine(lines[k]) }

IsEmptyLine(raw) == Content(raw) = <<>>

\* The maximal runs of consecutive non-blank lines, as pairs <<first, last>>.
Runs(lines) ==
  { r \in (DOMAIN lines) \X (DOMAIN lines) :
      /\ r[1] <= r[2]
      /\ \A i \in r[1]..r[2] : ~IsEmptyLine(lines[i])
      /\ r[1] = 1 \/ IsEmptyLine(lines[r[1] - 1])
      /\ r[2] = Len(lines) \/ IsEmptyLine(lines[r[2] + 1]) }

RECURSIVE JoinedRun(_, _, _)
\* The lines i..j, without their terminators, with a newline between them.
JoinedRun(lines, i, j) ==
  IF i = j THEN Content(lines[i])
  ELSE Content(lines[i]) \o <<"\n">> \o JoinedRun(lines, i + 1, j)

\* The k-th run of lines, in input order.
RunAt(lines, k) ==
  CHOOSE r \in Runs(lines) :
    Cardinality({q \in Runs(lines) : q[1] < r[1]}) = k - 1

\* C15: iterated to its end, stream_units in paragraph mode has yielded, in
\* input order, exactly one unit per maximal run of consecutive non-blank
\* lines, the lines of the run joined by a newline, the last run included
\* whether or not a blank line follows it; in line mode it has yielded every
\* non-empty line once, in order, and nothing else.  No unit is ever empty.
C15_ParagraphStreaming ==
  /\ \A k \in DOMAIN units : units[k] # <<>>
  /\ (pc = "units_done" /\ paragraph_mode) =>
       /\ Len(units) = Cardinality(Runs(InputLines))
       /\ \A k \in DOMAIN units :
            LET r == RunAt(InputLines, k)
            IN  units[k] = JoinedRun(InputLines, r[1], r[2])
  /\ (pc = "units_loop" /\ paragraph_mode) =>
       LET done == {r \in Runs(Consumed(pos)) : r[2] < pos}
       IN  /\ Len(units) = Cardinality(done)
           /\ \A k \in DOMAIN units :
                LET r == RunAt(Consumed(pos), k)
                IN  units[k] = JoinedRun(InputLines, r[1], r[2])
  /\ (pc \in {"units_loop", "units_done"} /\ ~paragraph_mode) =>
       LET sel == SelectSeq(Consumed(pos), LAMBDA l : ~IsEmptyLine(l))
       IN  units = [k \in 1..Len(sel) |-> Content(sel[k])]
  /\ pc = "units_done" => pos = Len(InputLines)

\* C15's case: in paragraph mode, a file of a two-line paragraph, a blank
\* line and a last line without a line terminator has given two units.
C15_Witness ==
  /\ pc = "units_done" /\ paragraph_mode
  /\ Len(InputLines) = 4
  /\ IsEmptyLine(InputLines[3])
  /\ Last(InputLines[4]) # "\n"
  /\ Len(units) = 2
  /\ units[1] = Content(InputLines[1]) \o <<"\n">> \o Content(InputLines[2])
  /\ units[2] = InputLines[4]

\* The loop body is about to run on the next line: a line is left and the
\* limit does not stop the loop.
BodyRuns ==
  /\ pc = "loop" /\ pos < Len(InputLines)
  /\ ~(limit # <<>> /\ total >= limit[1])

\* The output file has been extended by the line t, and by nothing else.
Emitted(t) ==
  OutputLines' = Append(OutputLines, t \o <<"\n">>)

\* C16: within one line the order is sanitize, test for emptiness, classify.
\* The text that is whitespace-only once sanitized is skipped and counted
\* nowhere, even when a pattern is a prefix of it; otherwise the prefix test
\* is made on the sanitized text: a match counts the line in removed and
\* writes nothing, no match writes the sanitized text.  So "^DOI: x" and
\* "D^OI: x" under the pattern "DOI:" are removed when carets are stripped,
\* and written, carets included, when they are not.
C16_StepOrder ==
  [][ (BodyRuns /\ pos' = pos + 1) =>
        LET raw == InputLines[pos + 1]
            t == Clean(raw)
            caretDoi == Content(raw) \in { <<"^","D","O","I",":"," ","x">>,
                                           <<"D","^","O","I",":"," ","x">> }
        IN  /\ ~NonEmpty(t) =>
              /\ removed' = removed /\ total' = total /\ fs' = fs
              /\ exc' = NoExc
            /\ (NonEmpty(t) /\ Boilerplate(t)) =>
              /\ removed' = removed + 1 /\ total' = total /\ fs' = fs
              /\ exc' = NoExc
            /\ (NonEmpty(t) /\ ~Boilerplate(t) /\ exc'.line # 126) =>
              /\ removed' = removed /\ total' = total + 1
              /\ Emitted(t)
            /\ (caretDoi /\ strip_caret
                  /\ <<"D","O","I",":">> \in Range(patterns)) =>
              /\ removed' = removed + 1 /\ fs' = fs
            /\ (caretDoi /\ ~strip_caret /\ exc'.line # 126
                  /\ <<"D","O","I",":">> \in Range(patterns)
                  /\ <<>> \notin Range(patterns)) =>
              /\ removed' = removed /\ total' = total + 1
              /\ Emitted(Content(raw))
    ]_vars

\* C16's case: with stripping and the patterns "DOI:" and "", the line "^^^"
\* (empty once sanitized, and the empty pattern is a prefix of it) has been
\* skipped, counted nowhere, and the line "D^OI: x" has then been removed.
C16_Witness ==
  /\ pc = "loop" /\ strip_caret /\ pos = 2
  /\ patterns = << <<"D","O","I",":">>, <<>> >>
  /\ Content(InputLines[1]) = <<"^","^","^">>
  /\ Content(InputLines[2]) = <<"D","^","O","I",":"," ","x">>
  /\ removed = 1 /\ total = 0 /\ OutputLines = <<>>

\* C17: a progress notification is emitted by the step whose write makes
\* written a positive multiple of the progress interval, and by no other
\* step: not by one that removes or skips a line, not at written = 0.  It
\* reports the written count of that moment, and the step has no effect
\* beyond the write's own: one line more in the output, written one higher,
\* removed unchanged, one line consumed.  (When the write to stderr itself
\* fails nothing is emitted; a new run starts with no notification.)
C17_ProgressReporting ==
  [][ /\ (progress' # progress /\ pass' = pass) =>
           /\ pc = "loop"
           /\ total' = total + 1
           /\ total' > 0 /\ total' % ProgressInterval = 0
           /\ progress' = Append(progress, total')
           /\ removed' = removed
           /\ pos' = pos + 1
           /\ Emitted(Clean(InputLines[pos + 1]))
      /\ (pc = "loop" /\ total' = total + 1
            /\ total' % ProgressInterval = 0) =>
           \/ progress' = Append(progress, total')
           \/ progress' = progress /\ exc' = Raise("OSError", 131)
      /\ (pc = "loop" /\ total' = total) => progress' = progress
    ]_vars

\* C17's case: four lines have been consumed, three written and one
\* removed, and the only notification reported 2, the interval of the model.
C17_Witness ==
  /\ pc = "loop" /\ pos = 4
  /\ total = 3 /\ removed = 1
  /\ progress = <<2>>

\* The consumed lines that were skipped as empty: whitespace-only once
\* sanitized, among the first n lines.
SkippedEmptyIn(n) ==
  Len(SelectSeq(Consumed(n), LAMBDA raw : ~NonEmpty(Clean(raw))))

\* The lines that were skipped as empty, of those that went through the loop
\* body.
SkippedEmpty == SkippedEmptyIn(Processed)

\* The consumed lines that the limit test discarded.
DiscardedAtLimit == pos - Processed

\* C19, as claimed: in every reachable state consumed = written + removed +
\* skipped_empty + discarded_at_limit, where discarded_at_limit is 0 or 1,
\* and 1 only once the limit has ended the loop.
C19_EveryLineAccounted ==
  LET done == Processed
      discarded == pos - done
  IN  /\ discarded \in {0, 1}
      /\ discarded = 1 =>
           pc # "loop" /\ limit # <<>> /\ total = limit[1]
      /\ pos = total + removed + SkippedEmptyIn(done) + discarded

\* C19, amended: the same accounting holds in every state in which no write
\* to the output has failed, and so in every state without an error; the
\* line whose write raised has been consumed and is counted nowhere, so that
\* consumed is from then on one more than the sum.
C19_LineAccounting ==
  LET done == Processed
      discarded == pos - done
      unaccounted ==
        pos - (total + removed + SkippedEmptyIn(done) + discarded)
  IN  /\ discarded \in {0, 1}
      /\ discarded = 1 =>
           pc # "loop" /\ limit # <<>> /\ total = limit[1]
      /\ unaccounted \in {0, 1}
      /\ exc.line \notin {126, 103} => unaccounted = 0
      /\ exc.line = 126 => unaccounted = 1
      /\ unaccounted = 1 =>
           /\ pc # "loop" /\ discarded = 0
           /\ Eligible(InputLines[pos])

\* C19's case: of five consumed lines one was written, two were removed, one
\* was skipped as empty, and the write of the fifth failed.
C19_Witness ==
  /\ pc = "raised" /\ exc = Raise("OSError", 126)
  /\ pos = 5 /\ total = 1 /\ removed = 2
  /\ SkippedEmpty = 1 /\ DiscardedAtLimit = 0

\* C20: filter_text_stream opens the input before the output: until the
\* input is open no file changes, and when opening it fails the call ends
\* there, the output neither opened nor created nor truncated.  And main,
\* given an input path that does not exist, ends with a non-zero status
\* without calling filter_text_stream and without touching a file.
C20_OutputUntouched ==
  [][ /\ pc \in {"main", "call", "open_in"} =>
           /\ fs' = fs
           /\ ~outOpen'
      /\ (pc = "open_in" /\ exc' # NoExc) =>
           /\ exc'.line = 102
           /\ pc' = "raised"
           /\ ~inOpen' /\ ~outOpen'
           /\ Exists(output_path)' = Exists(output_path)
           /\ OutputLines' = OutputLines
      /\ (pc = "main" /\ ~Exists(input_path)) =>
           /\ pc' \in {"exited", "raised"}
           /\ status' = <<1>>
           /\ (patterns_arg = <<>> \/ Exists(patterns_arg[1])) =>
                pc' = "exited" /\ exitmsg' = "Error: Input file not found"
      /\ pc \in {"exited", "raised"} => pc' = "main" \/ pc' = "call"
    ]_vars

\* C20's case: opening the input has failed, and the output file, which did
\* not exist before the call, still does not.
C20_Witness ==
  /\ pc = "raised" /\ exc.line = 102
  /\ ~Exists(output_path)
  /\ ~inOpen /\ ~outOpen

=============================================================================
